---- MODULE Spec2Model ----
(***************************************************************************)
(* Open-set identification: evaluation (threshold sweep, CSV export, ROC   *)
(* scatter subsample) and training of src/identification/open/evaluation.py*)
(*                                                                         *)
(* Floating-point values are modelled as exact fractions <<num, den>> with *)
(* den > 0; the pair <<0, 0>> is NaN (what numpy's mean of an empty array  *)
(* yields).  Comparisons with NaN are false, as in IEEE 754.               *)
(***************************************************************************)
EXTENDS Integers, Sequences, FiniteSets, TLC

VARIABLES
    op,             \* which function the run calls: "train" or "test"
    pc,             \* position of the run
    checkpoint,     \* whether model/model.pth exists
    saves,          \* number of torch.save calls of the run
    num_epochs,     \* train(): argument
    knownCount,     \* train(): len(train_loader.image_paths_known)
    numBatches,     \* train(): batches train_loader.generate_data() yields per epoch
    epoch,          \* train(): epochs completed
    batch,          \* train(): batches stepped in the current epoch
    steps,          \* train(): optimizer.step() calls of the run
    loader,         \* test(): batches test_loader.generate_data() still yields
    forwards,       \* test(): model(images) calls of the run
    probabilities,  \* test(): max softmax probability per sample
    labels,         \* test(): ground-truth label per sample
    thresholds,     \* the threshold grid
    far_list,
    frr_list,
    dir_list,
    eer_index,      \* plot_far_vs_frr(): index of the equal-error point (1-based)
    csv,            \* lines written to out/threshold_metrics.csv
    scatter,        \* plot_watchlist_roc_curve(): the scatter subsample
    artifacts       \* output files written by the run

vars == <<op, pc, checkpoint, saves, num_epochs, numBatches, knownCount, epoch,
          batch, steps, loader, forwards, probabilities, labels, thresholds,
          far_list, frr_list, dir_list, eer_index, csv, scatter, artifacts>>

trainVars == <<num_epochs, numBatches, knownCount, epoch, batch, steps>>
sweepVars == <<thresholds, far_list, frr_list, dir_list>>
reportVars == <<eer_index, csv, scatter, artifacts>>

(***************************************************************************)
(* Bounds of the model.                                                    *)
(***************************************************************************)
MaxSamples == 2
BatchSize == 2
MaxEpochs == 2
MaxTrainImages == 3
MaxPoints == 64

(***************************************************************************)
(* Program constants.                                                      *)
(***************************************************************************)
NumThresholds == 1000
NumScatter == 20
NumTargets == 10
UNKNOWN == 0 - 1

(***************************************************************************)
(* Fractions.                                                              *)
(***************************************************************************)
NaN == <<0, 0>>
IsNaN(a) == a[2] = 0
Rat(n, d) == <<n, d>>
RatEq(a, b) == ~IsNaN(a) /\ ~IsNaN(b) /\ a[1] * b[2] = b[1] * a[2]
RatLt(a, b) == ~IsNaN(a) /\ ~IsNaN(b) /\ a[1] * b[2] < b[1] * a[2]
RatGe(a, b) == ~IsNaN(a) /\ ~IsNaN(b) /\ a[1] * b[2] >= b[1] * a[2]
RatLe(a, b) == RatGe(b, a)
Abs(n) == IF n < 0 THEN 0 - n ELSE n
\* np.abs(a - b)
RatAbsDiff(a, b) ==
    IF IsNaN(a) \/ IsNaN(b) THEN NaN
    ELSE <<Abs(a[1] * b[2] - b[1] * a[2]), a[2] * b[2]>>
\* 1 - a
OneMinus(a) == IF IsNaN(a) THEN NaN ELSE <<a[2] - a[1], a[2]>>

(***************************************************************************)
(* The data loaders (external): a loader yields its samples in batches of  *)
(* BatchSize, the last one possibly shorter.  A test sample is the pair of *)
(* the confidence the model gives it (max softmax probability) and its     *)
(* label; -1 is the label of an unknown subject.                           *)
(***************************************************************************)
Sample(c, l) == [conf |-> c, label |-> l]
Confidences == {Rat(3, 10), Rat(7, 10), Rat(1, 1)}
Labels == {UNKNOWN, 0}
Samples == {Sample(c, l) : c \in Confidences, l \in Labels}

\* The end-to-end scenario: 4 known and 4 unknown samples.
Scenario ==
    << Sample(Rat(9, 10), 0), Sample(Rat(8, 10), 1),
       Sample(Rat(3, 10), 0), Sample(Rat(6, 10), 1),
       Sample(Rat(95, 100), UNKNOWN), Sample(Rat(4, 10), UNKNOWN),
       Sample(Rat(7, 10), UNKNOWN), Sample(Rat(2, 10), UNKNOWN) >>

EvalSets == UNION {[1..n -> Samples] : n \in 0..MaxSamples} \cup {Scenario}

Min2(a, b) == IF a < b THEN a ELSE b

RECURSIVE generate_data(_)
generate_data(data) ==
    IF data = <<>> THEN <<>>
    ELSE LET n == Min2(BatchSize, Len(data))
         IN  <<SubSeq(data, 1, n)>> \o generate_data(SubSeq(data, n + 1, Len(data)))

NumBatchesOf(count) == (count + BatchSize - 1) \div BatchSize

(***************************************************************************)
(* numpy helpers.                                                          *)
(***************************************************************************)
\* np.linspace(0, 1, num): num points, the i-th (from 0) is i / (num - 1)
Linspace01(num) ==
    [i \in 1..num |-> IF num = 1 THEN Rat(0, 1) ELSE Rat(i - 1, num - 1)]

\* Variant of LinspaceInt: endpoint excluded (step stop / num).
LinspaceIntNoEndpoint(stop, num) ==
    [j \in 1..num |-> ((j - 1) * stop) \div num]

\* np.linspace(0, stop, num, dtype=int) for stop >= 0: the points
\* j * stop / (num - 1), the last one set to stop, truncated to integers
LinspaceInt(stop, num) ==
    [j \in 1..num |-> IF j = num THEN stop ELSE ((j - 1) * stop) \div (num - 1)]

\* np.arange(0.1, 1.1, 0.1): 0.1, 0.2, ..., 1.0
selected_thresholds == [k \in 1..NumTargets |-> Rat(k, 10)]

\* np.mean of a boolean array: the number of True entries over the length
\* (NaN for an empty array).
RECURSIVE CountTrue(_)
CountTrue(mask) ==
    IF mask = <<>> THEN 0
    ELSE (IF Head(mask) THEN 1 ELSE 0) + CountTrue(Tail(mask))

Mean(mask) == Rat(CountTrue(mask), Len(mask))

\* Variant of Better: on a tie the later index wins (the last minimum).
BetterLast(a, i, j) ==
    IF IsNaN(a[i]) THEN i
    ELSE IF IsNaN(a[j]) THEN j
    ELSE IF RatLe(a[j], a[i]) THEN j ELSE i

\* argmin of a[lo..hi]: the first index of the smallest entry; a NaN entry
\* counts as the smallest (np.argmin returns the first NaN).  The range is
\* halved only to bound the evaluation depth.
Better(a, i, j) ==
    IF IsNaN(a[i]) THEN i
    ELSE IF IsNaN(a[j]) THEN j
    ELSE IF RatLt(a[j], a[i]) THEN j ELSE i

RECURSIVE ArgMinIn(_, _, _)
ArgMinIn(a, lo, hi) ==
    IF lo = hi THEN lo
    ELSE LET mid == (lo + hi) \div 2
         IN  Better(a, ArgMinIn(a, lo, mid), ArgMinIn(a, mid + 1, hi))

ArgMin(a) == ArgMinIn(a, 1, Len(a))

(***************************************************************************)
(* test(): the sweep, lines 120-130.                                       *)
(***************************************************************************)
\* Variant of SweepBody: strict acceptance (confidence > threshold).
SweepBodyStrict(probs, labs, threshold) ==
    LET accepted_unknown ==
            [k \in 1..Len(probs) |-> RatLt(threshold, probs[k]) /\ labs[k] = UNKNOWN]
        rejected_known ==
            [k \in 1..Len(probs) |-> RatLe(probs[k], threshold) /\ labs[k] # UNKNOWN]
        far == Mean(accepted_unknown)
        frr == Mean(rejected_known)
    IN  [far |-> far, frr |-> frr, dir_rate |-> OneMinus(frr)]

\* Variant of SweepBody: each rate over its own class (FAR over the unknown
\* samples, FRR over the known ones).
SweepBodyPerClass(probs, labs, threshold) ==
    LET unknown == [k \in 1..Len(probs) |-> labs[k] = UNKNOWN]
        known == [k \in 1..Len(probs) |-> labs[k] # UNKNOWN]
        accepted_unknown ==
            [k \in 1..Len(probs) |-> RatGe(probs[k], threshold) /\ labs[k] = UNKNOWN]
        rejected_known ==
            [k \in 1..Len(probs) |-> RatLt(probs[k], threshold) /\ labs[k] # UNKNOWN]
        far == Rat(CountTrue(accepted_unknown), CountTrue(unknown))
        frr == Rat(CountTrue(rejected_known), CountTrue(known))
    IN  [far |-> far, frr |-> frr, dir_rate |-> OneMinus(frr)]

\* Variant of SweepBody: DIR taken as the complement of FAR.
SweepBodyDirFromFar(probs, labs, threshold) ==
    LET accepted_unknown ==
            [k \in 1..Len(probs) |-> RatGe(probs[k], threshold) /\ labs[k] = UNKNOWN]
        rejected_known ==
            [k \in 1..Len(probs) |-> RatLt(probs[k], threshold) /\ labs[k] # UNKNOWN]
        far == Mean(accepted_unknown)
        frr == Mean(rejected_known)
    IN  [far |-> far, frr |-> frr, dir_rate |-> OneMinus(far)]

\* one iteration of the loop over the thresholds
SweepBody(probs, labs, threshold) ==
    LET accepted_unknown ==
            [k \in 1..Len(probs) |-> RatGe(probs[k], threshold) /\ labs[k] = UNKNOWN]
        rejected_known ==
            [k \in 1..Len(probs) |-> RatLt(probs[k], threshold) /\ labs[k] # UNKNOWN]
        far == Mean(accepted_unknown)
        frr == Mean(rejected_known)
    IN  [far |-> far, frr |-> frr, dir_rate |-> OneMinus(frr)]

\* iterations lo..hi of the loop, in order: what each appends to the lists
RECURSIVE SweepLoop(_, _, _, _, _)
SweepLoop(probs, labs, grid, lo, hi) ==
    IF lo > hi THEN [far_list |-> <<>>, frr_list |-> <<>>, dir_list |-> <<>>]
    ELSE IF lo = hi THEN
        LET r == SweepBody(probs, labs, grid[lo])
        IN  [far_list |-> <<r.far>>, frr_list |-> <<r.frr>>, dir_list |-> <<r.dir_rate>>]
    ELSE
        LET mid == (lo + hi) \div 2
            a == SweepLoop(probs, labs, grid, lo, mid)
            b == SweepLoop(probs, labs, grid, mid + 1, hi)
        IN  [far_list |-> a.far_list \o b.far_list,
             frr_list |-> a.frr_list \o b.frr_list,
             dir_list |-> a.dir_list \o b.dir_list]

(***************************************************************************)
(* The reporters.                                                          *)
(***************************************************************************)
\* plot_far_vs_frr(), line 81: np.argmin(np.abs(far_list - frr_list))
EerIndex(far, frr) == ArgMin([i \in 1..Len(far) |-> RatAbsDiff(far[i], frr[i])])

\* save_threshold_metrics(), line 67.  For the target 0.5 the grid points
\* 499/999 and 500/999 are equally near in exact arithmetic and argmin takes
\* the first; in binary64 the lower one is nearer by half an ulp, the same
\* index.
NearestIndex(grid, selected_threshold) ==
    ArgMin([i \in 1..Len(grid) |-> RatAbsDiff(grid[i], selected_threshold)])

Header == <<"Threshold", "FAR", "FRR", "DIR">>

\* save_threshold_metrics(), lines 66-75: the data rows, one per target
CsvRows(grid, far, frr, dir) ==
    [k \in 1..Len(selected_thresholds) |->
        LET index == NearestIndex(grid, selected_thresholds[k])
        IN  <<grid[index], far[index], frr[index], dir[index]>>]

\* plot_watchlist_roc_curve(), lines 32-36; subset_indices holds numpy's
\* 0-based indices
ScatterSubset(far, dir, grid) ==
    LET num_points == Len(far)
        subset_indices == LinspaceInt(num_points - 1, NumScatter)
    IN  [subset_indices |-> subset_indices,
         far_subset |-> [j \in 1..NumScatter |-> far[subset_indices[j] + 1]],
         dir_subset |-> [j \in 1..NumScatter |-> dir[subset_indices[j] + 1]],
         thresholds_subset |-> [j \in 1..NumScatter |-> grid[subset_indices[j] + 1]]]

NoScatter ==
    [subset_indices |-> <<>>, far_subset |-> <<>>, dir_subset |-> <<>>,
     thresholds_subset |-> <<>>]

(***************************************************************************)
(* Initial states: a run calls train() or test().                          *)
(***************************************************************************)
InitCommon ==
    /\ saves = 0
    /\ forwards = 0
    /\ probabilities = <<>>
    /\ labels = <<>>
    /\ thresholds = <<>>
    /\ far_list = <<>>
    /\ frr_list = <<>>
    /\ dir_list = <<>>
    /\ eer_index = 0
    /\ csv = <<>>
    /\ scatter = NoScatter
    /\ artifacts = {}
    /\ epoch = 0
    /\ batch = 0
    /\ steps = 0

InitTrain ==
    /\ op = "train"
    /\ pc = "train_loop"
    /\ checkpoint \in BOOLEAN
    /\ num_epochs \in 0..MaxEpochs
    /\ knownCount \in 0..MaxTrainImages
    /\ numBatches = NumBatchesOf(knownCount)
    /\ loader = <<>>

InitTest ==
    /\ op = "test"
    /\ pc = "test_load"
    /\ checkpoint \in BOOLEAN
    /\ num_epochs = 0
    /\ knownCount = 0
    /\ numBatches = 0
    /\ loader \in {generate_data(data) : data \in EvalSets}

Init == InitCommon /\ (InitTrain \/ InitTest)

(***************************************************************************)
(* train(), lines 137-167.                                                 *)
(***************************************************************************)
\* lines 149-151: the epoch loop enters its next epoch
TrainEpochBegin ==
    /\ pc = "train_loop"
    /\ epoch < num_epochs
    /\ pc' = "train_batches"
    /\ batch' = 0
    /\ UNCHANGED <<op, checkpoint, saves, num_epochs, knownCount, numBatches,
                   epoch, steps, loader, forwards, probabilities, labels>>
    /\ UNCHANGED <<sweepVars, reportVars>>

\* lines 152-162: one batch: forward, loss, backward, optimizer step
TrainBatch ==
    /\ pc = "train_batches"
    /\ batch < numBatches
    /\ batch' = batch + 1
    /\ steps' = steps + 1
    /\ UNCHANGED <<op, pc, checkpoint, saves, num_epochs, knownCount, numBatches,
                   epoch, loader, forwards, probabilities, labels>>
    /\ UNCHANGED <<sweepVars, reportVars>>

\* lines 152-162: a batch raises (nothing in train() catches): the run aborts
TrainBatchFail ==
    /\ pc = "train_batches"
    /\ batch < numBatches
    /\ pc' = "failed"
    /\ UNCHANGED <<op, checkpoint, saves, loader, forwards, probabilities, labels>>
    /\ UNCHANGED <<trainVars, sweepVars, reportVars>>

\* Variant of TrainEpochEnd: the checkpoint is also written after every epoch.
TrainEpochEndCheckpointing ==
    /\ pc = "train_batches"
    /\ batch = numBatches
    /\ IF knownCount = 0
       THEN pc' = "failed" /\ epoch' = epoch /\ UNCHANGED <<saves, checkpoint>>
       ELSE pc' = "train_loop" /\ epoch' = epoch + 1
            /\ saves' = saves + 1 /\ checkpoint' = TRUE
    /\ UNCHANGED <<op, num_epochs, knownCount, numBatches,
                   batch, steps, loader, forwards, probabilities, labels>>
    /\ UNCHANGED <<sweepVars, reportVars>>

\* lines 164-165: train_loss /= len(image_paths_known) raises ZeroDivisionError
\* for a loader without known images
TrainEpochEnd ==
    /\ pc = "train_batches"
    /\ batch = numBatches
    /\ IF knownCount = 0
       THEN pc' = "failed" /\ epoch' = epoch
       ELSE pc' = "train_loop" /\ epoch' = epoch + 1
    /\ UNCHANGED <<op, checkpoint, saves, num_epochs, knownCount, numBatches,
                   batch, steps, loader, forwards, probabilities, labels>>
    /\ UNCHANGED <<sweepVars, reportVars>>

\* line 167: torch.save after the epoch loop
TrainSave ==
    /\ pc = "train_loop"
    /\ epoch = num_epochs
    /\ saves' = saves + 1
    /\ checkpoint' = TRUE
    /\ pc' = "trained"
    /\ UNCHANGED <<op, loader, forwards, probabilities, labels>>
    /\ UNCHANGED <<trainVars, sweepVars, reportVars>>

(***************************************************************************)
(* test(), lines 102-134.                                                  *)
(***************************************************************************)
\* Variant of TestLoad: a missing checkpoint is skipped and the run goes on
\* with the model as constructed.
TestLoadLenient ==
    /\ pc = "test_load"
    /\ pc' = "scoring"
    /\ UNCHANGED <<op, checkpoint, saves, loader, forwards, probabilities, labels>>
    /\ UNCHANGED <<trainVars, sweepVars, reportVars>>

\* lines 103-106: torch.load raises when the checkpoint file is missing
TestLoad ==
    /\ pc = "test_load"
    /\ pc' = IF checkpoint THEN "scoring" ELSE "failed"
    /\ UNCHANGED <<op, checkpoint, saves, loader, forwards, probabilities, labels>>
    /\ UNCHANGED <<trainVars, sweepVars, reportVars>>

\* lines 110-116: one batch of the test loader is scored
ScoreBatch ==
    /\ pc = "scoring"
    /\ loader # <<>>
    /\ LET b == Head(loader)
       IN  /\ probabilities' = probabilities \o [k \in 1..Len(b) |-> b[k].conf]
           /\ labels' = labels \o [k \in 1..Len(b) |-> b[k].label]
    /\ forwards' = forwards + 1
    /\ loader' = Tail(loader)
    /\ UNCHANGED <<op, pc, checkpoint, saves>>
    /\ UNCHANGED <<trainVars, sweepVars, reportVars>>

\* lines 118-130: the loader is exhausted; the sweep over the grid
Sweep ==
    /\ pc = "scoring"
    /\ loader = <<>>
    /\ LET grid == Linspace01(NumThresholds)
           r == SweepLoop(probabilities, labels, grid, 1, Len(grid))
       IN  /\ thresholds' = grid
           /\ far_list' = r.far_list
           /\ frr_list' = r.frr_list
           /\ dir_list' = r.dir_list
    /\ pc' = "plot_far_vs_frr"
    /\ UNCHANGED <<op, checkpoint, saves, loader, forwards, probabilities, labels>>
    /\ UNCHANGED <<trainVars, reportVars>>

\* line 132, lines 78-99
PlotFarVsFrr ==
    /\ pc = "plot_far_vs_frr"
    /\ eer_index' = EerIndex(far_list, frr_list)
    /\ artifacts' = artifacts \cup {"out/far_vs_frr.png"}
    /\ pc' = "save_threshold_metrics"
    /\ UNCHANGED <<op, checkpoint, saves, loader, forwards, probabilities, labels,
                   csv, scatter>>
    /\ UNCHANGED <<trainVars, sweepVars>>

\* line 133, lines 61-75
SaveThresholdMetrics ==
    /\ pc = "save_threshold_metrics"
    /\ csv' = <<Header>> \o CsvRows(thresholds, far_list, frr_list, dir_list)
    /\ artifacts' = artifacts \cup {"out/threshold_metrics.csv"}
    /\ pc' = "plot_watchlist_roc_curve"
    /\ UNCHANGED <<op, checkpoint, saves, loader, forwards, probabilities, labels,
                   eer_index, scatter>>
    /\ UNCHANGED <<trainVars, sweepVars>>

\* line 134, lines 23-58
PlotWatchlistRoc ==
    /\ pc = "plot_watchlist_roc_curve"
    /\ scatter' = ScatterSubset(far_list, dir_list, thresholds)
    /\ artifacts' = artifacts \cup {"out/watchlist_roc_curve.png"}
    /\ pc' = "done"
    /\ UNCHANGED <<op, checkpoint, saves, loader, forwards, probabilities, labels,
                   eer_index, csv>>
    /\ UNCHANGED <<trainVars, sweepVars>>

Next ==
    \/ TrainEpochBegin
    \/ TrainBatch
    \/ TrainBatchFail
    \/ TrainEpochEnd
    \/ TrainSave
    \/ TestLoad
    \/ ScoreBatch
    \/ Sweep
    \/ PlotFarVsFrr
    \/ SaveThresholdMetrics
    \/ PlotWatchlistRoc

Spec == Init /\ [][Next]_vars

(***************************************************************************)
(* plot_watchlist_roc_curve() on sweep arrays of any length: the arrays    *)
(* are the sweep of an evaluation set over an N-point grid.                *)
(***************************************************************************)
InitSubsample ==
    /\ op = "plot"
    /\ pc = "plot_watchlist_roc_curve"
    /\ checkpoint = TRUE
    /\ saves = 0
    /\ num_epochs = 0
    /\ knownCount = 0
    /\ numBatches = 0
    /\ epoch = 0
    /\ batch = 0
    /\ steps = 0
    /\ loader = <<>>
    /\ forwards = 0
    /\ \E data \in {Scenario, SubSeq(Scenario, 3, 6)} :
         /\ probabilities = [k \in 1..Len(data) |-> data[k].conf]
         /\ labels = [k \in 1..Len(data) |-> data[k].label]
    /\ \E n \in 1..MaxPoints :
         LET grid == Linspace01(n)
             r == SweepLoop(probabilities, labels, grid, 1, n)
         IN  /\ thresholds = grid
             /\ far_list = r.far_list
             /\ frr_list = r.frr_list
             /\ dir_list = r.dir_list
    /\ eer_index = 0
    /\ csv = <<>>
    /\ scatter = NoScatter
    /\ artifacts = {}

NextSubsample == PlotWatchlistRoc

SpecSubsample == InitSubsample /\ [][NextSubsample]_vars

(***************************************************************************)
(* Properties.                                                             *)
(***************************************************************************)
N == Len(probabilities)
Swept == op = "test" /\ pc \in {"plot_far_vs_frr", "save_threshold_metrics",
                                "plot_watchlist_roc_curve", "done"}
NumKnown == Cardinality({k \in 1..N : labels[k] # UNKNOWN})
NumUnknown == Cardinality({k \in 1..N : labels[k] = UNKNOWN})
NumAcceptedUnknown(t) ==
    Cardinality({k \in 1..N : RatGe(probabilities[k], t) /\ labels[k] = UNKNOWN})
NumRejectedKnown(t) ==
    Cardinality({k \in 1..N : RatLt(probabilities[k], t) /\ labels[k] # UNKNOWN})
NumRetainedKnown(t) ==
    Cardinality({k \in 1..N : RatGe(probabilities[k], t) /\ labels[k] # UNKNOWN})
IsScenario ==
    /\ probabilities = [k \in 1..Len(Scenario) |-> Scenario[k].conf]
    /\ labels = [k \in 1..Len(Scenario) |-> Scenario[k].label]
\* the two grid points around 0.5 (499/999 and 500/999)
AroundHalf == {i \in 1..Len(thresholds) :
                 RatLe(RatAbsDiff(thresholds[i], Rat(1, 2)), Rat(1, 1998))}

\* C1: for a set of N >= 1 samples, at every grid threshold t, FAR(t) is the
\* number of samples with confidence >= t and label -1 over N, FRR(t) the
\* number with confidence < t and label # -1 over N, N the size of the whole
\* set; in the scenario FAR = 2/8, FRR = 1/8, DIR = 7/8 around t = 0.5.
C1_RatesOverWholeSet ==
    (Swept /\ N >= 1) =>
        /\ \A i \in 1..Len(thresholds) :
             /\ RatEq(far_list[i], Rat(NumAcceptedUnknown(thresholds[i]), N))
             /\ RatEq(frr_list[i], Rat(NumRejectedKnown(thresholds[i]), N))
        /\ IsScenario =>
             \A i \in AroundHalf :
                 /\ RatEq(far_list[i], Rat(2, 8))
                 /\ RatEq(frr_list[i], Rat(1, 8))
                 /\ RatEq(dir_list[i], Rat(7, 8))

C1_Witness ==
    /\ Swept /\ pc = "done" /\ IsScenario
    /\ Cardinality(AroundHalf) = 2
    /\ \A i \in AroundHalf : far_list[i] = Rat(2, 8) /\ frr_list[i] = Rat(1, 8)

\* C2: after the sweep, for any sample set and grid indices i < j,
\* FAR[i] >= FAR[j], FRR[i] <= FRR[j] and DIR[i] >= DIR[j].
C2_Monotone ==
    (Swept /\ pc = "done") =>
        \A i \in 1..Len(thresholds) : \A j \in (i + 1)..Len(thresholds) :
            /\ RatGe(far_list[i], far_list[j])
            /\ RatLe(frr_list[i], frr_list[j])
            /\ RatGe(dir_list[i], dir_list[j])

\* C3: after the sweep the three lists have the grid's length and at every
\* index DIR[i] + FRR[i] = 1.
RatSumIsOne(a, b) ==
    ~IsNaN(a) /\ ~IsNaN(b) /\ a[1] * b[2] + b[1] * a[2] = a[2] * b[2]

C3_Complement ==
    Swept =>
        /\ Len(thresholds) = NumThresholds
        /\ Len(far_list) = Len(thresholds)
        /\ Len(frr_list) = Len(thresholds)
        /\ Len(dir_list) = Len(thresholds)
        /\ \A i \in 1..Len(thresholds) : RatSumIsOne(dir_list[i], frr_list[i])

\* C4: for a non-empty set, at the first threshold (0) FRR = 0 and DIR = 1;
\* at the last threshold (1), when no confidence is exactly 1, FAR = 0 and
\* FRR is the number of known-subject samples over N.
C4_Endpoints ==
    (Swept /\ N >= 1) =>
        LET last == Len(thresholds)
        IN  /\ RatEq(thresholds[1], Rat(0, 1))
            /\ RatEq(thresholds[last], Rat(1, 1))
            /\ RatEq(frr_list[1], Rat(0, 1))
            /\ RatEq(dir_list[1], Rat(1, 1))
            /\ (\A k \in 1..N : ~RatEq(probabilities[k], Rat(1, 1))) =>
                   /\ RatEq(far_list[last], Rat(0, 1))
                   /\ RatEq(frr_list[last], Rat(NumKnown, N))

C4_Witness ==
    /\ Swept /\ pc = "done"
    /\ NumKnown >= 1 /\ NumUnknown >= 1
    /\ \A k \in 1..N : ~RatEq(probabilities[k], Rat(1, 1))
    /\ frr_list[Len(thresholds)] = Rat(NumKnown, N)
    /\ far_list[Len(thresholds)] = Rat(0, N)

\* C5: when the evaluation set has no known or no unknown samples (the empty
\* set included), every rate of the sweep is a number, the rate of the empty
\* class is 0 at every threshold, and no NaN reaches the CSV rows or the
\* scatter.
C5_DegenerateGuarded ==
    (Swept /\ (NumKnown = 0 \/ NumUnknown = 0)) =>
        /\ \A i \in 1..Len(thresholds) :
             /\ ~IsNaN(far_list[i]) /\ ~IsNaN(frr_list[i]) /\ ~IsNaN(dir_list[i])
             /\ NumUnknown = 0 => RatEq(far_list[i], Rat(0, 1))
             /\ NumKnown = 0 => RatEq(frr_list[i], Rat(0, 1))
        /\ \A k \in 2..Len(csv) : \A c \in 1..4 : ~IsNaN(csv[k][c])
        /\ \A j \in 1..Len(scatter.far_subset) :
             ~IsNaN(scatter.far_subset[j]) /\ ~IsNaN(scatter.dir_subset[j])

\* C6: the CSV has 11 lines: the header, then one row per target 0.1 .. 1.0
\* in ascending order; row k is (thresholds[i], FAR[i], FRR[i], DIR[i]) for the
\* lowest index i minimizing |thresholds[i] - target k|; the threshold written
\* is the grid value, which no target below 1.0 equals.
Distance(i, target) == RatAbsDiff(thresholds[i], target)
IsNearest(i, target) ==
    \A j \in 1..Len(thresholds) :
        /\ RatLe(Distance(i, target), Distance(j, target))
        /\ j < i => RatLt(Distance(i, target), Distance(j, target))

CsvWritten == op = "test" /\ pc \in {"plot_watchlist_roc_curve", "done"}

C6_CsvRows ==
    CsvWritten =>
        /\ Len(csv) = 11
        /\ csv[1] = Header
        /\ \A k \in 1..10 :
             /\ \E i \in 1..Len(thresholds) :
                  /\ csv[k + 1][1] = thresholds[i]
                  /\ csv[k + 1] = <<thresholds[i], far_list[i], frr_list[i], dir_list[i]>>
                  /\ IsNearest(i, Rat(k, 10))
             /\ k < 10 => ~RatEq(csv[k + 1][1], Rat(k, 10))
             /\ k > 1 => RatLt(csv[k][1], csv[k + 1][1])

C6_Witness ==
    /\ CsvWritten /\ IsScenario
    /\ Len(csv) = 11
    /\ csv[6] = <<Rat(499, 999), Rat(2, 8), Rat(1, 8), Rat(7, 8)>>
    /\ csv[11][1] = Rat(999, 999)

\* C7: for sweep arrays of length n >= 20 the scatter subsample has exactly
\* 20 indices, the first 0, the last n - 1, strictly increasing, all in
\* 0..n-1, the j-th (from 0) the truncation of j * (n - 1) / 19, and the same
\* indices select the FAR, DIR and threshold values.
ScatterDone == pc = "done" /\ Len(scatter.subset_indices) > 0

C7_ScatterSubsample ==
    (ScatterDone /\ Len(far_list) >= 20) =>
        LET n == Len(far_list)
            idx == scatter.subset_indices
        IN  /\ Len(idx) = 20
            /\ idx[1] = 0
            /\ idx[20] = n - 1
            /\ \A j \in 1..19 : idx[j] < idx[j + 1]
            /\ \A j \in 1..20 : idx[j] \in 0..(n - 1)
            /\ \A j \in 0..19 : idx[j + 1] = (j * (n - 1)) \div 19
            /\ Len(scatter.far_subset) = 20
            /\ Len(scatter.dir_subset) = 20
            /\ Len(scatter.thresholds_subset) = 20
            /\ \A j \in 1..20 :
                 /\ scatter.far_subset[j] = far_list[idx[j] + 1]
                 /\ scatter.dir_subset[j] = dir_list[idx[j] + 1]
                 /\ scatter.thresholds_subset[j] = thresholds[idx[j] + 1]

C7_Witness ==
    /\ op = "plot" /\ ScatterDone
    /\ Len(far_list) >= 20
    /\ (Len(far_list) - 1) % 19 # 0
    /\ scatter.subset_indices[20] = Len(far_list) - 1

\* C8: a test() run whose checkpoint is missing fails at the load step: no
\* forward pass, no score, no rate, no output file, and nothing follows the
\* failure.
C8_MissingCheckpoint ==
    (op = "test" /\ ~checkpoint /\ pc # "test_load") =>
        /\ pc = "failed"
        /\ forwards = 0
        /\ probabilities = <<>> /\ labels = <<>>
        /\ thresholds = <<>>
        /\ far_list = <<>> /\ frr_list = <<>> /\ dir_list = <<>>
        /\ csv = <<>>
        /\ scatter = NoScatter
        /\ artifacts = {}
        /\ ~ENABLED Next

C8_Witness ==
    /\ op = "test" /\ ~checkpoint /\ pc = "failed"
    /\ Len(loader) >= 2

\* C9 as stated: DIR(t) is the number of known-subject samples with
\* confidence >= t over the number of known-subject samples.
C9_DirOverKnown ==
    (Swept /\ NumKnown >= 1) =>
        \A i \in 1..Len(thresholds) :
            RatEq(dir_list[i], Rat(NumRetainedKnown(thresholds[i]), NumKnown))

\* C9 amended: DIR(t) = 1 - FRR(t) over the whole set: the number of samples
\* that are unknown-subject or have confidence >= t, over N; NaN for an
\* empty set.
C9_DirOverWholeSet ==
    Swept =>
        \A i \in 1..Len(thresholds) :
            IF N = 0 THEN IsNaN(dir_list[i])
            ELSE RatEq(dir_list[i],
                       Rat(NumUnknown + NumRetainedKnown(thresholds[i]), N))

C9_Witness ==
    /\ Swept /\ pc = "done"
    /\ NumKnown >= 1 /\ NumUnknown >= 1
    /\ \E i \in 1..Len(thresholds) :
         /\ dir_list[i] = Rat(NumUnknown + NumRetainedKnown(thresholds[i]), N)
         /\ ~RatEq(dir_list[i], Rat(NumRetainedKnown(thresholds[i]), NumKnown))

\* C10: a train() run that completes has written the checkpoint exactly once,
\* after all num_epochs epochs and all their batches; a run that has not
\* completed, or that failed, has written none.
C10_CheckpointOnce ==
    op = "train" =>
        /\ pc = "trained" =>
             /\ saves = 1
             /\ checkpoint
             /\ epoch = num_epochs
             /\ steps = num_epochs * numBatches
        /\ pc # "trained" => saves = 0

C10_Witness ==
    /\ op = "train" /\ pc = "trained"
    /\ num_epochs >= 2 /\ numBatches >= 2
    /\ steps = num_epochs * numBatches
    /\ saves = 1

====
